---- MODULE Spec2Model ----
(***************************************************************************)
(* Product aggregate persistence of mebayu-be:                             *)
(* ProductRepositoryImpl (find_by_id, create, update, delete) over the     *)
(* PostgreSQL tables products, product_category_relations,                 *)
(* product_material_relations and product_images.                          *)
(*                                                                         *)
(* The committed database is the variable db.  A create or update call     *)
(* runs its statements inside a transaction whose uncommitted writes are   *)
(* kept in tx[self] and become visible in db only at the commit step; a    *)
(* call that returns early drops the transaction, which rolls it back.     *)
(* delete and find_by_id are single statements on the pool.                *)
(***************************************************************************)
EXTENDS Integers, Sequences, FiniteSets, TLC

(* ------------------------------ bounds -------------------------------- *)
MaxLen == 1
MaxPage == 4
MaxLimit == 3

(* ----------------------------- universes ------------------------------ *)
Procs == {"a", "b"}
ProdIds == {"p1", "p2"}
AllCatIds == {1, 2, 3}
AllMatIds == {1, 2}
ImgIds == {1, 2}
\* The image ids a caller supplies with an aggregate.
NewImgIds == {1}
Names == {"A", "B"}
Null == 0

SeqsUpTo(S, n) == UNION {[1..k -> S] : k \in 0..n}
Range(s) == {s[i] : i \in 1..Len(s)}

RECURSIVE SortSet(_)
SortSet(S) ==
    IF S = {} THEN <<>>
    ELSE LET m == CHOOSE x \in S : \A y \in S : x <= y
         IN <<m>> \o SortSet(S \ {m})

(* ------------------------------ values -------------------------------- *)
NoRow == [present |-> FALSE, name |-> "none", created_at |-> 0]
Row(n, t) == [present |-> TRUE, name |-> n, created_at |-> t]

\* The Product aggregate a caller hands to create / update.
Product(n, t, cs, ms, is) ==
    [name |-> n, created_at |-> t, category_ids |-> cs,
     material_ids |-> ms, images |-> is]

NoProduct == Product("none", 0, <<>>, <<>>, <<>>)

\* The aggregates a caller may supply, with created_at = t.
Products(t) ==
    {Product(n, t, cs, ms, is) :
        n \in Names,
        cs \in SeqsUpTo(AllCatIds, MaxLen),
        ms \in SeqsUpTo(AllMatIds, MaxLen),
        is \in SeqsUpTo(NewImgIds, MaxLen)}

\* AppError variants and the Ok result.
NoAgg == [id |-> "none", name |-> "none", created_at |-> 0,
          category_ids |-> {}, material_ids |-> {},
          categories |-> <<>>, product_materials |-> <<>>, images |-> <<>>]
Ok(v) == [kind |-> "Ok", value |-> v]
Err(k) == [kind |-> k, value |-> NoAgg]
NoResult == Err("none")

NoCall == [op |-> "none", id |-> "p1", product |-> NoProduct]

NoTx == [open |-> FALSE, rowW |-> "none", row |-> NoRow, locked |-> FALSE,
         delC |-> {}, addC |-> {}, delM |-> {}, addM |-> {},
         delI |-> {}, addI |-> {}]

VARIABLES db, pc, call, tx, result, gh

vars == <<db, pc, call, tx, result, gh>>

(* ------------------------- committed database ------------------------- *)
EmptyDb ==
    [products |-> [p \in ProdIds |-> NoRow],
     pcr |-> {}, pmr |-> {},
     images |-> [i \in ImgIds |-> "none"],
     cats |-> {1, 2}, mats |-> {1}]

CatsOf(d, id) == {c \in AllCatIds : <<id, c>> \in d.pcr}
MatsOf(d, id) == {m \in AllMatIds : <<id, m>> \in d.pmr}
ImgsOf(d, id) == {i \in ImgIds : d.images[i] = id}

(* ----------------------------- find_by_id ----------------------------- *)
\* What a statement run on &self.pool sees while the transactions t of
\* other connections are open: the committed rows only.
VisibleDirty(d, ids, t) ==
    [d EXCEPT
       !.products = [p \in ProdIds |->
                       IF \E o \in Procs : t[o].open /\ ids[o] = p /\ t[o].rowW # "none"
                       THEN (CHOOSE o \in Procs : t[o].open /\ ids[o] = p /\ t[o].rowW # "none").row
                       ELSE @[p]],
       !.pcr = (@ \ {<<ids[o], c>> : o \in {q \in Procs : t[q].open}, c \in AllCatIds})
               \cup {l \in ProdIds \X AllCatIds :
                       \E o \in Procs : t[o].open /\ ids[o] = l[1] /\ l[2] \in t[o].addC}]

Visible(d, ids, t) == d

\* LEFT JOIN: a product without a matching row keeps one output row whose
\* joined columns are NULL.
LeftJoin(matches) == IF matches = {} THEN {Null} ELSE matches

\* The rows of one product after the three LEFT JOINs: every combination of
\* a category, a material and an image of the product.
JoinRows(cs, ms, is) == cs \X ms \X is

\* Column k of the joined rows of a group, one value per row.
RECURSIVE Column(_, _)
Column(rows, k) ==
    IF rows = {} THEN <<>>
    ELSE LET r == CHOOSE x \in rows : TRUE
         IN <<r[k]>> \o Column(rows \ {r}, k)

NotNull(x) == x # Null

\* json_agg(x) FILTER (WHERE x.id IS NOT NULL): one element per joined row.
JsonAggAll(col) == SelectSeq(col, NotNull)

\* json_agg(DISTINCT x) FILTER (WHERE x.id IS NOT NULL): each value once, in
\* the order of the sort that removes the duplicates.
JsonAggDistinct(col) == SortSet(Range(col) \ {Null})

\* The Product built from the row of product id and its joined rows.
Hydrate(d, id, rows) ==
    LET categories == JsonAggDistinct(Column(rows, 1))
        materials == JsonAggDistinct(Column(rows, 2))
        images == JsonAggDistinct(Column(rows, 3))
    IN [id |-> id,
        name |-> d.products[id].name,
        created_at |-> d.products[id].created_at,
        category_ids |-> Range(categories),
        material_ids |-> Range(materials),
        categories |-> categories,
        product_materials |-> materials,
        images |-> images]

FindByIdInner(d, id) ==
    LET rows == IF d.products[id].present
                THEN JoinRows({c \in CatsOf(d, id) : c \in d.cats},
                              {m \in MatsOf(d, id) : m \in d.mats},
                              ImgsOf(d, id))
                ELSE {}
    IN IF rows = {} THEN Err("NotFound") ELSE Ok(Hydrate(d, id, rows))

FindById(d, id) ==
    LET rows == IF d.products[id].present
                THEN JoinRows(LeftJoin({c \in CatsOf(d, id) : c \in d.cats}),
                              LeftJoin({m \in MatsOf(d, id) : m \in d.mats}),
                              LeftJoin(ImgsOf(d, id)))
                ELSE {}
    IN IF rows = {} THEN Err("NotFound") ELSE Ok(Hydrate(d, id, rows))

(* ---------------------------- transactions ---------------------------- *)
\* The rows of product id as the statements of transaction t see them:
\* the committed rows overlaid with the transaction's own writes.
ViewRow(d, id, t) == IF t.rowW # "none" THEN t.row ELSE d.products[id]

\* tx.commit(): the transaction's writes become the committed state.
Apply(d, id, t) ==
    [d EXCEPT
       !.products = IF t.rowW # "none" THEN [@ EXCEPT ![id] = t.row] ELSE @,
       !.pcr = (@ \ {<<id, c>> : c \in t.delC}) \cup {<<id, c>> : c \in t.addC},
       !.pmr = (@ \ {<<id, m>> : m \in t.delM}) \cup {<<id, m>> : m \in t.addM},
       !.images = [i \in ImgIds |->
                     IF i \in t.addI THEN id
                     ELSE IF i \in t.delI THEN "none" ELSE @[i]]]

\* The committed state after a successful create of the product.
Created(d, id, n, cs, ms, is) ==
    Apply(d, id, [NoTx EXCEPT !.rowW = "insert", !.row = Row(n, 1),
                              !.addC = cs, !.addM = ms, !.addI = is])

\* Databases the calls start from: no product; one product with a category,
\* a material and an image; two products, one of them in two categories.
InitDbs ==
    {EmptyDb,
     Created(EmptyDb, "p1", "A", {1}, {1}, {1}),
     Created(Created(EmptyDb, "p1", "A", {1, 2}, {}, {}),
             "p2", "B", {2}, {1}, {1})}

(* ------------------------------ helpers ------------------------------- *)
\* History kept for the properties only: the committed state when the call
\* began, whether the call's tx.commit() returned Ok, whether no other call
\* changed the committed state since the call began, whether the call
\* began while another call's transaction held uncommitted writes, the
\* place of the call's commit among the commits (0: none), and, for a
\* create or update, the creates and updates that had returned when it began.
NoGhost == [pre |-> EmptyDb, committed |-> FALSE, alone |-> TRUE,
            overlap |-> FALSE, seq |-> 0, after |-> {}]

Ghost(self) ==
    [pre |-> db, committed |-> FALSE, alone |-> TRUE,
     overlap |-> \E o \in Procs \ {self} :
                    tx[o].open /\ tx[o] # [NoTx EXCEPT !.open = TRUE],
     seq |-> 0, after |-> {}]

Writes == {"create", "update"}

ReturnedWrites(self) ==
    {o \in Procs \ {self} : pc[o] = "done" /\ call[o].op \in Writes}

Disturb(self, d2) ==
    [o \in Procs |->
       IF o # self /\ pc[o] # "idle" /\ d2 # db
       THEN [gh[o] EXCEPT !.alone = FALSE] ELSE gh[o]]

FailLeaking(self, k) ==
    /\ pc' = [pc EXCEPT ![self] = "done"]
    /\ result' = [result EXCEPT ![self] = Err(k)]
    /\ UNCHANGED <<db, call, gh, tx>>

\* An early return (the ? operator or return Err) drops tx: rollback.
Fail(self, k) ==
    /\ pc' = [pc EXCEPT ![self] = "done"]
    /\ result' = [result EXCEPT ![self] = Err(k)]
    /\ tx' = [tx EXCEPT ![self] = NoTx]
    /\ UNCHANGED <<db, call, gh>>

Goto(self, l) ==
    /\ pc' = [pc EXCEPT ![self] = l]
    /\ UNCHANGED <<db, call, result, gh>>

Begin(self, o, id, P, l) ==
    /\ pc[self] = "idle"
    /\ call' = [call EXCEPT ![self] = [op |-> o, id |-> id, product |-> P]]
    /\ gh' = [gh EXCEPT ![self] =
                [Ghost(self) EXCEPT !.after = IF o \in Writes
                                               THEN ReturnedWrites(self)
                                               ELSE {}]]
    /\ pc' = [pc EXCEPT ![self] = l]

HasDuplicates(s) == \E i, j \in 1..Len(s) : i # j /\ s[i] = s[j]

(* ------------------------------ schema -------------------------------- *)
\* Outcomes of inserting the relation rows (id, s[1]), (id, s[2]), ...:
\* the foreign keys need the product row and each target row; whether a
\* repeated pair is rejected depends on the key of the relation table.
InsertLinksOutcomes(s, targets, prodVisible) ==
    IF Len(s) = 0 THEN {"ok"}
    ELSE IF ~prodVisible \/ \E x \in Range(s) : x \notin targets THEN {"error"}
    ELSE IF HasDuplicates(s) THEN {"ok", "error"}
    ELSE {"ok"}

\* product_images.id is the primary key; product_id references products.
InsertImagesOk(d, t, s, prodVisible) ==
    \/ Len(s) = 0
    \/ /\ prodVisible
       /\ ~HasDuplicates(s)
       /\ \A i \in Range(s) : d.images[i] = "none" \/ i \in t.delI

\* DELETE FROM products: the relation and image rows of the product go
\* with it (ON DELETE CASCADE).
CascadeDelete(d, id) ==
    [d EXCEPT !.products[id] = NoRow,
              !.pcr = {l \in @ : l[1] # id},
              !.pmr = {l \in @ : l[1] # id},
              !.images = [i \in ImgIds |-> IF @[i] = id THEN "none" ELSE @[i]]]

(* ------------------------------- create ------------------------------- *)
\* Placeholders and .bind() calls of the two INSERT INTO product_images.
UpdateImagePlaceholders == 6
UpdateImageBinds == 5

CreateImagePlaceholdersAsUpdate == UpdateImagePlaceholders

CreateImagePlaceholders == 5
CreateImageBinds == 5

\* The server runs a statement only when every placeholder has a value; a
\* value bound beyond the placeholders is a declared parameter left unused.
StatementRuns(placeholders, binds) == placeholders <= binds

CreateBegin(self, id, P) ==
    /\ Begin(self, "create", id, P, "c_check")
    /\ tx' = [tx EXCEPT ![self] = [NoTx EXCEPT !.open = TRUE]]
    /\ UNCHANGED <<db, result>>

\* SELECT count(*) FROM product_categories WHERE id = ANY($1)
CountCategories(d, ids) == Cardinality({c \in d.cats : c \in Range(ids)})

\* !product.category_ids.is_empty()
CategoryIdsGivenAlways(ids) == TRUE

CategoryIdsGiven(ids) == Len(ids) # 0

CategoriesMissingNever(count, n) == count > n

CategoriesMissing(count, n) == count # n

\* 1. Check if all categories exist
CreateCheck(self) ==
    LET P == call[self].product IN
    /\ pc[self] = "c_check"
    /\ IF CategoryIdsGiven(P.category_ids)
       THEN IF CategoriesMissing(CountCategories(db, P.category_ids),
                                 Len(P.category_ids))
            THEN Fail(self, "NotFound")
            ELSE Goto(self, "c_product") /\ UNCHANGED tx
       ELSE Fail(self, "Validation")

\* An INSERT of a key that an open transaction has inserted waits for the
\* end of that transaction.
InsertPending(self, id) ==
    \E o \in Procs \ {self} :
       tx[o].open /\ tx[o].rowW = "insert" /\ call[o].id = id

CreateInsertProductUpsert(self) ==
    LET P == call[self].product IN
    /\ pc[self] = "c_product"
    /\ tx' = [tx EXCEPT ![self].rowW = "insert",
                        ![self].row = Row(P.name, P.created_at)]
    /\ Goto(self, "c_cats")

\* 2. Insert product
CreateInsertProduct(self) ==
    LET P == call[self].product
        id == call[self].id IN
    /\ pc[self] = "c_product"
    /\ ~InsertPending(self, id)
    /\ IF db.products[id].present
       THEN Fail(self, "Database")
       ELSE /\ tx' = [tx EXCEPT ![self].rowW = "insert",
                                ![self].row = Row(P.name, P.created_at)]
            /\ Goto(self, "c_cats")

\* 3. Insert category relations
CreateInsertCategories(self) ==
    LET P == call[self].product
        id == call[self].id IN
    /\ pc[self] = "c_cats"
    /\ \E out \in InsertLinksOutcomes(P.category_ids, db.cats,
                                      ViewRow(db, id, tx[self]).present) :
         IF out = "ok"
         THEN /\ tx' = [tx EXCEPT ![self].addC = Range(P.category_ids)]
              /\ Goto(self, "c_mats")
         ELSE Fail(self, "Database")

\* 4. Insert material relations
CreateInsertMaterials(self) ==
    LET P == call[self].product
        id == call[self].id IN
    /\ pc[self] = "c_mats"
    /\ \E out \in InsertLinksOutcomes(P.material_ids, db.mats,
                                      ViewRow(db, id, tx[self]).present) :
         IF out = "ok"
         THEN /\ tx' = [tx EXCEPT ![self].addM = Range(P.material_ids)]
              /\ Goto(self, "c_imgs")
         ELSE Fail(self, "Database")

\* 5. Insert image relations
CreateInsertImages(self) ==
    LET P == call[self].product
        id == call[self].id IN
    /\ pc[self] = "c_imgs"
    /\ IF Len(P.images) = 0
          \/ /\ StatementRuns(CreateImagePlaceholders, CreateImageBinds)
             /\ InsertImagesOk(db, tx[self], P.images,
                               ViewRow(db, id, tx[self]).present)
       THEN /\ tx' = [tx EXCEPT ![self].addI = Range(P.images)]
            /\ Goto(self, "commit")
       ELSE Fail(self, "Database")

(* ------------------------------- update ------------------------------- *)
\* An UPDATE or DELETE of a row waits for the transaction that holds the
\* lock of the row.
RowLocked(self, id) ==
    \E o \in Procs \ {self} : tx[o].open /\ tx[o].locked /\ call[o].id = id

UpdateBegin(self, id, P) ==
    /\ Begin(self, "update", id, P, "u_product")
    /\ tx' = [tx EXCEPT ![self] = [NoTx EXCEPT !.open = TRUE]]
    /\ UNCHANGED <<db, result>>

UpdateProductSkipped(self) ==
    /\ pc[self] = "u_product"
    /\ Goto(self, "u_cats")
    /\ UNCHANGED tx

UpdateProductStamping(self) ==
    LET P == call[self].product
        id == call[self].id IN
    /\ pc[self] = "u_product"
    /\ ~RowLocked(self, id)
    /\ tx' = IF db.products[id].present
             THEN [tx EXCEPT ![self].rowW = "update",
                             ![self].row = [db.products[id] EXCEPT
                                               !.name = P.name,
                                               !.created_at = @ + 1],
                             ![self].locked = TRUE]
             ELSE tx
    /\ Goto(self, "u_cats")

UpdateProductUpsert(self) ==
    LET P == call[self].product
        id == call[self].id IN
    /\ pc[self] = "u_product"
    /\ ~RowLocked(self, id)
    /\ tx' = IF db.products[id].present
             THEN [tx EXCEPT ![self].rowW = "update",
                             ![self].row = [db.products[id] EXCEPT !.name = P.name],
                             ![self].locked = TRUE]
             ELSE [tx EXCEPT ![self].rowW = "insert",
                             ![self].row = Row(P.name, P.created_at),
                             ![self].locked = TRUE]
    /\ Goto(self, "u_cats")

\* 1. Update product basic fields: zero affected rows is not an error; an
\* affected row stays locked until the transaction ends.
UpdateProduct(self) ==
    LET P == call[self].product
        id == call[self].id IN
    /\ pc[self] = "u_product"
    /\ ~RowLocked(self, id)
    /\ tx' = IF db.products[id].present
             THEN [tx EXCEPT ![self].rowW = "update",
                             ![self].row = [db.products[id] EXCEPT !.name = P.name],
                             ![self].locked = TRUE]
             ELSE tx
    /\ Goto(self, "u_cats")

\* 2. Update category relations: clear existing, add new
UpdateCategories(self) ==
    LET P == call[self].product
        id == call[self].id IN
    /\ pc[self] = "u_cats"
    /\ \E out \in InsertLinksOutcomes(P.category_ids, db.cats,
                                      ViewRow(db, id, tx[self]).present) :
         IF out = "ok"
         THEN /\ tx' = [tx EXCEPT ![self].delC = CatsOf(db, id),
                                  ![self].addC = Range(P.category_ids)]
              /\ Goto(self, "u_mats")
         ELSE Fail(self, "Database")

\* 3. Update material relations: clear existing, add new
UpdateMaterials(self) ==
    LET P == call[self].product
        id == call[self].id IN
    /\ pc[self] = "u_mats"
    /\ \E out \in InsertLinksOutcomes(P.material_ids, db.mats,
                                      ViewRow(db, id, tx[self]).present) :
         IF out = "ok"
         THEN /\ tx' = [tx EXCEPT ![self].delM = MatsOf(db, id),
                                  ![self].addM = Range(P.material_ids)]
              /\ Goto(self, "u_imgs")
         ELSE Fail(self, "Database")

UpdateImagesClearingAll(self) ==
    LET P == call[self].product
        id == call[self].id
        cleared == [tx[self] EXCEPT !.delI = {i \in ImgIds : db.images[i] # "none"}] IN
    /\ pc[self] = "u_imgs"
    /\ IF Len(P.images) = 0
          \/ /\ StatementRuns(UpdateImagePlaceholders, UpdateImageBinds)
             /\ InsertImagesOk(db, cleared, P.images,
                               ViewRow(db, id, tx[self]).present)
       THEN /\ tx' = [tx EXCEPT ![self] = [cleared EXCEPT !.addI = Range(P.images)]]
            /\ Goto(self, "commit")
       ELSE Fail(self, "Database")

\* 4. Update image relations: clear existing, add new
UpdateImages(self) ==
    LET P == call[self].product
        id == call[self].id
        cleared == [tx[self] EXCEPT !.delI = ImgsOf(db, id)] IN
    /\ pc[self] = "u_imgs"
    /\ IF Len(P.images) = 0
          \/ /\ StatementRuns(UpdateImagePlaceholders, UpdateImageBinds)
             /\ InsertImagesOk(db, cleared, P.images,
                               ViewRow(db, id, tx[self]).present)
       THEN /\ tx' = [tx EXCEPT ![self] = [cleared EXCEPT !.addI = Range(P.images)]]
            /\ Goto(self, "commit")
       ELSE Fail(self, "Database")

(* --------------------------- product_categories ----------------------- *)
\* What the foreign key of product_category_relations.category_id does
\* when a referenced category is deleted: it deletes the relation rows
\* with it, or it refuses the DELETE.
OnDeleteCategory == {"cascade", "restrict"}

\* An open transaction has inserted a relation row that names category c:
\* its foreign-key check holds a lock on the category row until it ends.
CategoryLocked(c) == \E o \in Procs : tx[o].open /\ c \in tx[o].addC

\* ProductCategoryRepositoryImpl::delete: DELETE FROM product_categories
\* WHERE id = $1 on the pool.
DeleteCategory(self, c, mode) ==
    LET referenced == \E l \in db.pcr : l[2] = c IN
    /\ pc[self] = "idle"
    /\ ~CategoryLocked(c)
    /\ call' = [call EXCEPT ![self] =
                  [op |-> "delete_category", id |-> "p1",
                   product |-> NoProduct, category |-> c]]
    /\ IF mode = "restrict" /\ referenced
       THEN /\ db' = db
            /\ result' = [result EXCEPT ![self] = Err("Database")]
       ELSE /\ db' = [db EXCEPT !.cats = @ \ {c},
                                !.pcr = {l \in @ : l[2] # c}]
            /\ result' = [result EXCEPT ![self] = Ok(NoAgg)]
    /\ gh' = [Disturb(self, db') EXCEPT ![self] = Ghost(self)]
    /\ pc' = [pc EXCEPT ![self] = "done"]
    /\ UNCHANGED tx

(* ------------------------- delete, find_by_id ------------------------- *)
\* delete returns Ok(()) whatever the number of rows the DELETE affected.
DeleteResultChecked(d, id) ==
    IF d.products[id].present THEN Ok(NoAgg) ELSE Err("NotFound")

DeleteResult(d, id) == Ok(NoAgg)

DeleteRowOnly(self, id) ==
    /\ ~RowLocked(self, id)
    /\ pc[self] = "idle"
    /\ call' = [call EXCEPT ![self] = [op |-> "delete", id |-> id, product |-> NoProduct]]
    /\ db' = [db EXCEPT !.products[id] = NoRow]
    /\ gh' = [Disturb(self, db') EXCEPT ![self] = Ghost(self)]
    /\ result' = [result EXCEPT ![self] = DeleteResult(db, id)]
    /\ pc' = [pc EXCEPT ![self] = "done"]
    /\ UNCHANGED tx

Delete(self, id) ==
    /\ ~RowLocked(self, id)
    /\ pc[self] = "idle"
    /\ call' = [call EXCEPT ![self] = [op |-> "delete", id |-> id, product |-> NoProduct]]
    /\ db' = CascadeDelete(db, id)
    /\ gh' = [Disturb(self, db') EXCEPT ![self] = Ghost(self)]
    /\ result' = [result EXCEPT ![self] = DeleteResult(db, id)]
    /\ pc' = [pc EXCEPT ![self] = "done"]
    /\ UNCHANGED tx

FindByIdCall(self, id) ==
    /\ Begin(self, "find_by_id", id, NoProduct, "done")
    /\ result' = [result EXCEPT ![self] =
           FindById(Visible(db, [o \in Procs |-> call[o].id], tx), id)]
    /\ UNCHANGED <<db, tx>>

(* --------------------------- commit, read-back ------------------------ *)
\* tx.commit()
Commit(self) ==
    /\ pc[self] = "commit"
    /\ db' = Apply(db, call[self].id, tx[self])
    /\ tx' = [tx EXCEPT ![self] = NoTx]
    /\ gh' = [Disturb(self, db') EXCEPT
                ![self].committed = TRUE,
                ![self].seq = 1 + Cardinality({o \in Procs : gh[o].committed})]
    /\ pc' = [pc EXCEPT ![self] = "read"]
    /\ UNCHANGED <<call, result>>

\* self.find_by_id(id).await, the value create and update return
ReadBack(self) ==
    /\ pc[self] = "read"
    /\ result' = [result EXCEPT ![self] =
           FindById(Visible(db, [o \in Procs |-> call[o].id], tx), call[self].id)]
    /\ pc' = [pc EXCEPT ![self] = "done"]
    /\ UNCHANGED <<db, call, tx, gh>>

(* ------------------------- PaginationQuery ---------------------------- *)
\* Option<T>: None and Some(x).
None == <<>>
Some(x) == <<x>>

\* A u32 (or the i64 made from one) as two 16-bit halves: hi * 2^16 + lo.
Half == 2^16
U32(hi, lo) == [hi |-> hi, lo |-> lo]
Small(k) == U32(0, k)

\* A page whose offset does not fit 32 bits with limit 2: 2^31 + 1.
BigPage == U32(2^15, 1)

\* A text is a sequence of characters.
Terms == {<<"a">>, <<"z">>, <<"_">>}

AllowedSortFields == {"name", "price", "created_at", "updated_at", "status"}

SortValues ==
    {None} \cup {Some(f) : f \in AllowedSortFields
                              \cup {"id", "'; DROP TABLE products;--"}}

Queries ==
    [page : {None, Some(BigPage)} \cup {Some(Small(k)) : k \in 1..MaxPage},
     limit : {None} \cup {Some(k) : k \in 1..MaxLimit},
     search : {None} \cup {Some(t) : t \in Terms},
     sort : SortValues,
     sort_order : {None, Some("Asc"), Some("Desc")}]

\* Arithmetic overflow aborts a build with overflow checks (the debug
\* profile) and wraps around in a build without them (the release profile).
Builds == {"checked", "wrapping"}

DefaultPage == 1
DefaultLimit == 10

get_page(q) == IF q.page = None THEN Small(DefaultPage) ELSE q.page[1]

get_limit(q) == IF q.limit = None THEN DefaultLimit ELSE q.limit[1]

\* page - 1 for a page of at least 1
Decrement(p) == IF p.lo > 0 THEN U32(p.hi, p.lo - 1) ELSE U32(p.hi - 1, Half - 1)

\* ((self.get_page() - 1) * self.get_limit()) as i64, the product in u32
get_offset(q, build) ==
    LET p == Decrement(get_page(q))
        low == p.lo * get_limit(q)
        high == p.hi * get_limit(q) + (low \div Half)
    IN IF high < Half
       THEN [panic |-> FALSE, value |-> U32(high, low % Half)]
       ELSE IF build = "wrapping"
       THEN [panic |-> FALSE, value |-> U32(high % Half, low % Half)]
       ELSE [panic |-> TRUE, value |-> Small(0)]

(* ------------------------------ find_all ------------------------------ *)
ListIds == {"p1", "p2", "p3", "p4", "p5"}

\* The order in which the scan delivers rows that the ORDER BY leaves tied.
IdRank == [p1 |-> 1, p2 |-> 2, p3 |-> 3, p4 |-> 4, p5 |-> 5]
TieOrders == {IdRank, [p \in ListIds |-> 6 - IdRank[p]]}

ListRow(n, pr, st, c, u, m, de) ==
    [present |-> TRUE, name |-> n, price |-> pr, status |-> st,
     created_at |-> c, updated_at |-> u, material |-> m, description |-> de]

NoListRow == [present |-> FALSE, name |-> <<>>, price |-> 0, status |-> <<>>,
              created_at |-> 0, updated_at |-> 0, material |-> <<>>,
              description |-> <<>>]

\* let sort_field = query.get_sort().filter(allowed).unwrap_or("created_at")
SortFieldUnchecked(q) == IF q.sort # None THEN q.sort[1] ELSE "created_at"

SortField(q) ==
    IF q.sort # None /\ q.sort[1] \in AllowedSortFields
    THEN q.sort[1] ELSE "created_at"

\* Some(SortOrder::Asc) => "ASC", _ => "DESC"
SortOrderSql(q) == IF q.sort_order = Some("Asc") THEN "ASC" ELSE "DESC"

FindAllBinds == 3
FindAllPlaceholders(q) == IF q.search # None THEN 3 ELSE 2

\* The statement find_all sends: the formatted text and the bound values.
Statement(q, offset) ==
    [where |-> q.search, order_by |-> SortField(q),
     direction |-> SortOrderSql(q), limit |-> get_limit(q), offset |-> offset]

\* Collation of the characters, and ILIKE's folding of case.
CharRank(c) == CASE c = "a" -> 1 [] c = "A" -> 2 [] c = "b" -> 3 [] OTHER -> 4
Lower(c) == IF c = "A" THEN "a" ELSE c

\* The position of a text in the collation order.
TextKey(t) ==
    LET digit(i) == IF i <= Len(t) THEN CharRank(t[i]) ELSE 0
    IN digit(1) * 5 + digit(2)

\* text ILIKE '%term%': _ in the term matches any one character.
ILike(text, term) ==
    \E i \in 1..(Len(text) - Len(term) + 1) :
       \A j \in 1..Len(term) :
          term[j] = "_" \/ Lower(text[i + j - 1]) = Lower(term[j])

\* WHERE p.name ILIKE $3 OR p.material ILIKE $3 OR p.description ILIKE $3
Where(row, search) ==
    \/ search = None
    \/ ILike(row.name, search[1])
    \/ ILike(row.material, search[1])
    \/ ILike(row.description, search[1])

\* The columns of products an ORDER BY p.<column> can name; any other text
\* in that place is not a statement that sorts the rows.
SortableColumns == AllowedSortFields \cup {"id"}

\* The sort key of product x: ORDER BY p.<column>
SortKey(d, x, column) ==
    CASE column = "name" -> TextKey(d.products[x].name)
      [] column = "price" -> d.products[x].price
      [] column = "created_at" -> d.products[x].created_at
      [] column = "updated_at" -> d.products[x].updated_at
      [] column = "status" -> TextKey(d.products[x].status)
      [] column = "id" -> IdRank[x]

\* Row x comes before row y in ORDER BY p.<column> <direction>.
Before(d, stmt, tie, x, y) ==
    LET kx == SortKey(d, x, stmt.order_by)
        ky == SortKey(d, y, stmt.order_by)
    IN \/ IF stmt.direction = "ASC" THEN kx < ky ELSE kx > ky
       \/ kx = ky /\ tie[x] <= tie[y]

RECURSIVE OrderBy(_, _, _, _)
OrderBy(d, stmt, tie, S) ==
    IF S = {} THEN <<>>
    ELSE LET f == CHOOSE x \in S : \A y \in S : Before(d, stmt, tie, x, y)
         IN <<f>> \o OrderBy(d, stmt, tie, S \ {f})

Min(a, b) == IF a <= b THEN a ELSE b

\* The rows the statement returns: the groups that pass WHERE, ordered,
\* each with COUNT(*) OVER() of all of them, then LIMIT and OFFSET (an
\* offset of 2^16 or more is past the last row of every table here).
Groups(d, search) ==
    {p \in DOMAIN d.products :
       d.products[p].present /\ Where(d.products[p], search)}

Execute(d, stmt, tie) ==
    LET ordered == OrderBy(d, stmt, tie, Groups(d, stmt.where))
        n == Len(ordered)
        page == IF stmt.offset.hi > 0 THEN <<>>
                ELSE SubSeq(ordered, stmt.offset.lo + 1,
                            Min(stmt.offset.lo + stmt.limit, n))
    IN [i \in 1..Len(page) |-> [id |-> page[i], total_count |-> n]]

\* The rows of a product after the LEFT JOINs of find_all.
Joined(d, id) ==
    JoinRows(LeftJoin({c \in CatsOf(d, id) : c \in d.cats}),
             LeftJoin({m \in MatsOf(d, id) : m \in d.mats}),
             LeftJoin(ImgsOf(d, id)))

ListOk(items, total) == [kind |-> "Ok", items |-> items, total |-> total]

\* if rows.is_empty() { return Ok((vec![], 0)); }
\* let total = rows[0].get("total_count")
TotalOf(rows) == IF Len(rows) = 0 THEN 0 ELSE rows[1].total_count

FindAll(d, q, tie, build) ==
    LET off == get_offset(q, build)
        stmt == Statement(q, off.value)
        rows == Execute(d, stmt, tie)
    IN IF off.panic THEN [kind |-> "Panic"]
       ELSE IF \/ ~StatementRuns(FindAllPlaceholders(q), FindAllBinds)
               \/ stmt.order_by \notin SortableColumns
       THEN [kind |-> "Database"]
       ELSE ListOk([i \in 1..Len(rows) |->
                      Hydrate(d, rows[i].id, Joined(d, rows[i].id))],
                   TotalOf(rows))

(* ------------------------- ProductServiceImpl ------------------------- *)
\* (total_data as f64 / limit as f64).ceil() as u64: exact for the counts
\* below 2^53.
CeilFloor(n, l) == n \div l

Ceil(n, l) == (n + l - 1) \div l

GetAll(d, q, tie, build) ==
    LET r == FindAll(d, q, tie, build)
    IN IF r.kind # "Ok" THEN r
       ELSE [kind |-> "Ok", data |-> r.items, page |-> get_page(q),
             limit |-> get_limit(q), total_data |-> r.total,
             total_page |-> Ceil(r.total, get_limit(q))]

ListCall(o, q, tie, build) ==
    [op |-> o, id |-> "p1", product |-> NoProduct,
     query |-> q, tie |-> tie, build |-> build]

FindAllCall(self, q, tie, build) ==
    /\ pc[self] = "idle"
    /\ call' = [call EXCEPT ![self] = ListCall("find_all", q, tie, build)]
    /\ gh' = [gh EXCEPT ![self] = Ghost(self)]
    /\ result' = [result EXCEPT ![self] =
           FindAll(Visible(db, [o \in Procs |-> call[o].id], tx), q, tie, build)]
    /\ pc' = [pc EXCEPT ![self] = "done"]
    /\ UNCHANGED <<db, tx>>

GetAllCall(self, q, tie, build) ==
    /\ pc[self] = "idle"
    /\ call' = [call EXCEPT ![self] = ListCall("get_all", q, tie, build)]
    /\ gh' = [gh EXCEPT ![self] = Ghost(self)]
    /\ result' = [result EXCEPT ![self] =
           GetAll(Visible(db, [o \in Procs |-> call[o].id], tx), q, tie, build)]
    /\ pc' = [pc EXCEPT ![self] = "done"]
    /\ UNCHANGED <<db, tx>>

(* ----------------------- ProductServiceImpl::create -------------------- *)
Urls == {"u1", "u2"}

\* CreateProductRequest
Requests ==
    [name : Names,
     category_ids : SeqsUpTo(AllCatIds, MaxLen),
     material_ids : SeqsUpTo(AllMatIds, MaxLen),
     image_urls : SeqsUpTo(Urls, MaxLen)]

\* S3Service::validate_object: head_object of the key of the url succeeds
\* for the objects in the bucket.
validate_object(objects, url) == url \in objects

\* Uuid::new_v4(): ids that no row has.
FreshIds(d) == {p \in ProdIds : ~d.products[p].present}
FreshImgIds(d) == {i \in ImgIds : d.images[i] = "none"}
FreshImages(d, n) == SubSeq(SortSet(FreshImgIds(d)), 1, n)

ServiceCall(req, objects) ==
    [op |-> "service_create", id |-> "p1", product |-> NoProduct,
     request |-> req, objects |-> objects, validated |-> 0,
     invoked |-> FALSE]

ServiceCreateBegin(self, req, objects) ==
    /\ pc[self] = "idle"
    /\ call' = [call EXCEPT ![self] = ServiceCall(req, objects)]
    /\ gh' = [gh EXCEPT ![self] = Ghost(self)]
    /\ pc' = [pc EXCEPT ![self] = "s_validate"]
    /\ UNCHANGED <<db, tx, result>>

ServiceValidateUnchecked(self) ==
    LET c == call[self] IN
    /\ pc[self] = "s_validate"
    /\ c.validated < Len(c.request.image_urls)
    /\ call' = [call EXCEPT ![self].validated = @ + 1]
    /\ UNCHANGED <<db, pc, tx, result, gh>>

\* for url in &req.image_urls { self.s3_service.validate_object(url).await?; }
ServiceValidate(self) ==
    LET c == call[self] IN
    /\ pc[self] = "s_validate"
    /\ c.validated < Len(c.request.image_urls)
    /\ IF validate_object(c.objects, c.request.image_urls[c.validated + 1])
       THEN /\ call' = [call EXCEPT ![self].validated = @ + 1]
            /\ UNCHANGED <<db, pc, tx, result, gh>>
       ELSE Fail(self, "Validation")

\* The Product built from the request, and self.repository.create(&product)
\* up to its pool.begin().
ServiceInvokeCreate(self) ==
    LET c == call[self]
        n == Len(c.request.image_urls) IN
    /\ pc[self] = "s_validate"
    /\ c.validated = n
    /\ \E id \in FreshIds(db) :
          call' = [call EXCEPT
                     ![self].id = id,
                     ![self].product = Product(c.request.name, 1,
                                               c.request.category_ids,
                                               c.request.material_ids,
                                               FreshImages(db, n)),
                     ![self].invoked = TRUE]
    /\ tx' = [tx EXCEPT ![self] = [NoTx EXCEPT !.open = TRUE]]
    /\ pc' = [pc EXCEPT ![self] = "c_check"]
    /\ UNCHANGED <<db, result, gh>>

(* ----------------------- ProductServiceImpl::update ------------------- *)
\* Option::unwrap_or
UnwrapOr(opt, default) == IF opt = None THEN default ELSE opt[1]

\* UpdateProductRequest
PartialRequest(n, cs, ms, us) ==
    [name |-> n, category_ids |-> cs, material_ids |-> ms, image_urls |-> us]

ServiceUpdateCall(id, req, objects) ==
    [op |-> "service_update", id |-> id, product |-> NoProduct,
     request |-> req, objects |-> objects, read |-> NoAgg,
     invoked |-> FALSE]

ServiceUpdateBegin(self, id, req, objects) ==
    /\ pc[self] = "idle"
    /\ call' = [call EXCEPT ![self] = ServiceUpdateCall(id, req, objects)]
    /\ gh' = [gh EXCEPT ![self] =
                [Ghost(self) EXCEPT
                   !.after = {o \in Procs \ {self} : pc[o] = "done"}]]
    /\ pc' = [pc EXCEPT ![self] = "su_validate"]
    /\ UNCHANGED <<db, tx, result>>

\* if let Some(urls) = &req.image_urls { for url in urls { validate_object } }
ServiceUpdateValidate(self) ==
    LET c == call[self]
        urls == UnwrapOr(c.request.image_urls, <<>>) IN
    /\ pc[self] = "su_validate"
    /\ IF \A i \in 1..Len(urls) : validate_object(c.objects, urls[i])
       THEN Goto(self, "su_find") /\ UNCHANGED tx
       ELSE Fail(self, "Validation")

\* The Product of the request laid over the product read.
Merge(req, product, images) ==
    Product(UnwrapOr(req.name, product.name),
            product.created_at,
            UnwrapOr(req.category_ids, product.categories),
            UnwrapOr(req.material_ids, product.product_materials),
            IF req.image_urls = None THEN product.images ELSE images)

\* self.repository.find_by_id(id).await?, the merge, and
\* self.repository.update(id, &product) up to its pool.begin().
ServiceUpdateFind(self) ==
    LET c == call[self]
        r == FindById(Visible(db, [o \in Procs |-> call[o].id], tx), c.id)
        n == Len(UnwrapOr(c.request.image_urls, <<>>)) IN
    /\ pc[self] = "su_find"
    /\ IF r.kind = "Ok"
       THEN /\ call' = [call EXCEPT
                          ![self].read = r.value,
                          ![self].product =
                              Merge(c.request, r.value, FreshImages(db, n)),
                          ![self].invoked = TRUE]
            /\ tx' = [tx EXCEPT ![self] = [NoTx EXCEPT !.open = TRUE]]
            /\ pc' = [pc EXCEPT ![self] = "u_product"]
            /\ UNCHANGED <<db, result, gh>>
       ELSE /\ result' = [result EXCEPT ![self] = r]
            /\ pc' = [pc EXCEPT ![self] = "done"]
            /\ UNCHANGED <<db, call, tx, gh>>

(* ---------------------------- specification --------------------------- *)
Init ==
    /\ db \in InitDbs
    /\ pc = [p \in Procs |-> "idle"]
    /\ call = [p \in Procs |-> NoCall]
    /\ tx = [p \in Procs |-> NoTx]
    /\ result = [p \in Procs |-> NoResult]
    /\ gh = [p \in Procs |-> NoGhost]


\* One call of any kind by process a, each step of it a suspension point.
Writer(self) ==
    \/ \E id \in ProdIds, P \in Products(1) : CreateBegin(self, id, P)
    \/ CreateCheck(self)
    \/ CreateInsertProduct(self)
    \/ CreateInsertCategories(self)
    \/ CreateInsertMaterials(self)
    \/ CreateInsertImages(self)
    \/ \E id \in ProdIds, P \in Products(2) : UpdateBegin(self, id, P)
    \/ UpdateProduct(self)
    \/ UpdateCategories(self)
    \/ UpdateMaterials(self)
    \/ UpdateImages(self)
    \/ Commit(self)
    \/ ReadBack(self)
    \/ \E id \in ProdIds : FindByIdCall(self, id)
    \/ \E id \in ProdIds : Delete(self, id)

\* A delete or a find_by_id by process b, at any point of a's call.
Other(self) ==
    \/ \E id \in ProdIds : Delete(self, id)
    \/ \E id \in ProdIds : FindByIdCall(self, id)

Next == Writer("a") \/ Other("b")

Spec == Init /\ [][Next]_vars

(* --------------------------- storage failures ------------------------- *)
\* Any statement may fail in the storage engine (connection lost, pool
\* timeout): map_err turns it into AppError::Database and ? returns it.
InTx == {"c_check", "c_product", "c_cats", "c_mats", "c_imgs",
         "u_product", "u_cats", "u_mats", "u_imgs", "commit"}

\* A statement of the transaction, or the commit, fails: tx is dropped.
StatementFault(self) ==
    /\ pc[self] \in InTx
    /\ Fail(self, "Database")

\* The find_by_id after the commit fails.
ReadBackFault(self) ==
    /\ pc[self] = "read"
    /\ result' = [result EXCEPT ![self] = Err("Database")]
    /\ pc' = [pc EXCEPT ![self] = "done"]
    /\ UNCHANGED <<db, call, tx, gh>>

\* pool.begin(), or the single statement of delete or find_by_id, fails.
CallFault(self, o, id, P) ==
    /\ Begin(self, o, id, P, "done")
    /\ result' = [result EXCEPT ![self] = Err("Database")]
    /\ UNCHANGED <<db, tx>>

WriterFaults(self) ==
    \/ StatementFault(self)
    \/ ReadBackFault(self)
    \/ \E id \in ProdIds, P \in Products(1) : CallFault(self, "create", id, P)
    \/ \E id \in ProdIds, P \in Products(2) : CallFault(self, "update", id, P)
    \/ \E id \in ProdIds, o \in {"delete", "find_by_id"} :
          CallFault(self, o, id, NoProduct)

OtherFaults(self) ==
    \E id \in ProdIds, o \in {"delete", "find_by_id"} :
       CallFault(self, o, id, NoProduct)

NextFault == Next \/ WriterFaults("a") \/ OtherFaults("b")

SpecFault == Init /\ [][NextFault]_vars

(* ------------------------------ listings ------------------------------ *)
\* Product tables a listing runs on: no product; three products; five
\* products, two of them created at the same time.
ListTable(rows) ==
    [EmptyDb EXCEPT !.products = [p \in ListIds |-> rows[p]]]

FiveRows ==
    [p1 |-> ListRow(<<"A", "b">>, 3, <<"a">>, 1, 5, <<"b">>, <<"b">>),
     p2 |-> ListRow(<<"b">>, 1, <<"b">>, 2, 4, <<"A">>, <<"b">>),
     p3 |-> ListRow(<<"b", "b">>, 2, <<"a">>, 3, 3, <<"b">>, <<"b", "a">>),
     p4 |-> ListRow(<<"b">>, 2, <<"b">>, 3, 2, <<"b">>, <<"b">>),
     p5 |-> ListRow(<<"a">>, 5, <<"a">>, 5, 1, <<"b">>, <<"b">>)]

ListDbs ==
    {ListTable([p \in ListIds |-> NoListRow]),
     ListTable([p \in ListIds |->
                  IF p \in {"p1", "p2", "p3"} THEN FiveRows[p] ELSE NoListRow]),
     ListTable(FiveRows)}

InitList ==
    /\ db \in ListDbs
    /\ pc = [p \in Procs |-> "idle"]
    /\ call = [p \in Procs |-> NoCall]
    /\ tx = [p \in Procs |-> NoTx]
    /\ result = [p \in Procs |-> NoResult]
    /\ gh = [p \in Procs |-> NoGhost]

\* One find_all, or one get_all of the service, on a table.
NextList ==
    /\ pc["a"] = "idle"
    /\ \E q \in Queries, tie \in TieOrders, build \in Builds :
          \/ FindAllCall("a", q, tie, build)
          \/ GetAllCall("a", q, tie, build)

SpecList == InitList /\ [][NextList]_vars

(* ------------------------------- reads -------------------------------- *)
\* Databases with a product in two categories that has two images: without
\* materials; with two materials, next to a product without images.
ReadDbs ==
    {Created(EmptyDb, "p1", "A", {1, 2}, {}, {1, 2}),
     Created(Created([EmptyDb EXCEPT !.mats = {1, 2}],
                     "p1", "A", {1, 2}, {1, 2}, {2}),
             "p2", "B", {1}, {}, {})}

InitRead ==
    /\ db \in ReadDbs
    /\ pc = [p \in Procs |-> "idle"]
    /\ call = [p \in Procs |-> NoCall]
    /\ tx = [p \in Procs |-> NoTx]
    /\ result = [p \in Procs |-> NoResult]
    /\ gh = [p \in Procs |-> NoGhost]

\* The query with every field left out.
DefaultQuery ==
    [page |-> None, limit |-> None, search |-> None, sort |-> None,
     sort_order |-> None]

\* The calls of Spec, and a listing by process b at any point of a's call.
NextRead ==
    \/ Next
    \/ \E tie \in TieOrders : FindAllCall("b", DefaultQuery, tie, "wrapping")

SpecRead == InitRead /\ [][NextRead]_vars

(* ----------------------------- two writers ---------------------------- *)
\* Aggregates that differ in the scalars, the category, the materials and
\* the images.
TwoProducts ==
    {Product(n, 2, cs, ms, is) :
        n \in Names, cs \in {<<1>>, <<2>>}, ms \in {<<>>, <<1>>},
        is \in {<<>>, <<1>>}}

TwoDbs == {EmptyDb, Created(EmptyDb, "p1", "A", {1}, {1}, {1})}

InitTwo ==
    /\ db \in TwoDbs
    /\ pc = [p \in Procs |-> "idle"]
    /\ call = [p \in Procs |-> NoCall]
    /\ tx = [p \in Procs |-> NoTx]
    /\ result = [p \in Procs |-> NoResult]
    /\ gh = [p \in Procs |-> NoGhost]

\* A create or an update of product p1, each step a suspension point.
TwoWriter(self) ==
    \/ \E P \in TwoProducts : CreateBegin(self, "p1", P)
    \/ CreateCheck(self)
    \/ CreateInsertProduct(self)
    \/ CreateInsertCategories(self)
    \/ CreateInsertMaterials(self)
    \/ CreateInsertImages(self)
    \/ \E P \in TwoProducts : UpdateBegin(self, "p1", P)
    \/ UpdateProduct(self)
    \/ UpdateCategories(self)
    \/ UpdateMaterials(self)
    \/ UpdateImages(self)
    \/ Commit(self)
    \/ ReadBack(self)

\* Two calls on the same product, concurrent or one after the other.
NextTwo == TwoWriter("a") \/ TwoWriter("b")

SpecTwo == InitTwo /\ [][NextTwo]_vars

(* ------------------------- two writers, live -------------------------- *)
\* Aggregates with no category, a stored category or a missing one, with
\* and without an image.
LiveProducts ==
    {Product("B", 2, cs, <<1>>, is) :
        cs \in {<<>>, <<1>>, <<3>>}, is \in {<<>>, <<1>>}}

\* The steps of a call that has begun.
LiveSteps(self) ==
    \/ CreateCheck(self)
    \/ CreateInsertProduct(self)
    \/ CreateInsertCategories(self)
    \/ CreateInsertMaterials(self)
    \/ CreateInsertImages(self)
    \/ UpdateProduct(self)
    \/ UpdateCategories(self)
    \/ UpdateMaterials(self)
    \/ UpdateImages(self)
    \/ Commit(self)
    \/ ReadBack(self)

\* A create or an update of product p1, whose statements may fail.
LiveWriter(self) ==
    \/ \E P \in LiveProducts : CreateBegin(self, "p1", P)
    \/ \E P \in LiveProducts : UpdateBegin(self, "p1", P)
    \/ LiveSteps(self)
    \/ StatementFault(self)
    \/ ReadBackFault(self)

NextLive == LiveWriter("a") \/ LiveWriter("b")

\* A call that has begun is polled whenever its next statement can run:
\* the storage engine answers every statement that waits for no lock. No
\* call has to begin and no statement has to fail.
SpecLive ==
    InitTwo /\ [][NextLive]_vars /\ \A self \in Procs : WF_vars(LiveSteps(self))

(* --------------------------- abandoned calls -------------------------- *)
\* The awaits of the statements of a transaction, before tx.commit().
Suspended == InTx \ {"commit"}

AbandonCommitting(self) ==
    /\ pc[self] \in Suspended
    /\ db' = Apply(db, call[self].id, tx[self])
    /\ pc' = [pc EXCEPT ![self] = "done"]
    /\ result' = [result EXCEPT ![self] = Err("Abandoned")]
    /\ tx' = [tx EXCEPT ![self] = NoTx]
    /\ UNCHANGED <<call, gh>>

\* The caller drops the future of create or update at an await: the local
\* tx is dropped with it, which rolls back.
Abandon(self) ==
    /\ pc[self] \in Suspended
    /\ Fail(self, "Abandoned")

NextAbandon ==
    \/ LiveWriter("a") \/ LiveWriter("b")
    \/ Abandon("a") \/ Abandon("b")

SpecAbandon == InitTwo /\ [][NextAbandon]_vars

(* --------------------------- partial updates -------------------------- *)
\* Product p1 absent, stored without an image, stored with an image.
MergeDbs ==
    {EmptyDb,
     Created(EmptyDb, "p1", "A", {1}, {1}, {}),
     Created(EmptyDb, "p1", "A", {1}, {1}, {1})}

InitMerge ==
    /\ db \in MergeDbs
    /\ pc = [p \in Procs |-> "idle"]
    /\ call = [p \in Procs |-> NoCall]
    /\ tx = [p \in Procs |-> NoTx]
    /\ result = [p \in Procs |-> NoResult]
    /\ gh = [p \in Procs |-> NoGhost]

\* Requests that set the name, the categories, both or neither.
ScalarRequests ==
    {PartialRequest(n, cs, None, None) :
        n \in {None, Some("B")}, cs \in {None, Some(<<2>>)}}

\* The request with the bucket it is validated against: the requests of
\* the first caller may carry an image that is or is not in the bucket.
MergeRequests(self) ==
    IF self = "a"
    THEN (ScalarRequests \X {Urls})
         \cup {<<[r EXCEPT !.image_urls = Some(<<"u1">>)], objects>> :
                  r \in ScalarRequests, objects \in {{}, Urls}}
    ELSE ScalarRequests \X {Urls}

\* A partial update of product p1 by the service, each await a step.
MergeWriter(self) ==
    \/ /\ pc[self] = "idle"
       /\ \E ro \in MergeRequests(self) :
             ServiceUpdateBegin(self, "p1", ro[1], ro[2])
    \/ ServiceUpdateValidate(self)
    \/ ServiceUpdateFind(self)
    \/ UpdateProduct(self)
    \/ UpdateCategories(self)
    \/ UpdateMaterials(self)
    \/ UpdateImages(self)
    \/ Commit(self)
    \/ ReadBack(self)

NextMerge == MergeWriter("a") \/ MergeWriter("b")

SpecMerge == InitMerge /\ [][NextMerge]_vars

(* ------------------------------- images ------------------------------- *)
\* Aggregates with no image, one image, or two images in either order.
ImageProducts ==
    {Product("A", 1, cs, ms, is) :
        cs \in {<<1>>, <<2>>}, ms \in {<<>>, <<1>>},
        is \in {<<>>, <<1>>, <<2>>, <<1, 2>>, <<2, 1>>}}

InitImages ==
    /\ db = EmptyDb
    /\ pc = [p \in Procs |-> "idle"]
    /\ call = [p \in Procs |-> NoCall]
    /\ tx = [p \in Procs |-> NoTx]
    /\ result = [p \in Procs |-> NoResult]
    /\ gh = [p \in Procs |-> NoGhost]

\* A create of a product with images, and a find_by_id by another caller.
ImageWriter(self) ==
    \/ \E id \in ProdIds, P \in ImageProducts : CreateBegin(self, id, P)
    \/ CreateCheck(self)
    \/ CreateInsertProduct(self)
    \/ CreateInsertCategories(self)
    \/ CreateInsertMaterials(self)
    \/ CreateInsertImages(self)
    \/ Commit(self)
    \/ ReadBack(self)

NextImages ==
    \/ ImageWriter("a")
    \/ \E id \in ProdIds : FindByIdCall("b", id)

SpecImages == InitImages /\ [][NextImages]_vars

(* ------------------------ updates of a missing id --------------------- *)
\* An update by the repository or by the service, of a stored or of a
\* missing product.
UpdateCaller(self) ==
    \/ \E id \in ProdIds, P \in Products(2) : UpdateBegin(self, id, P)
    \/ /\ pc[self] = "idle"
       /\ \E id \in ProdIds, ro \in MergeRequests(self) :
             ServiceUpdateBegin(self, id, ro[1], ro[2])
    \/ ServiceUpdateValidate(self)
    \/ ServiceUpdateFind(self)
    \/ UpdateProduct(self)
    \/ UpdateCategories(self)
    \/ UpdateMaterials(self)
    \/ UpdateImages(self)
    \/ Commit(self)
    \/ ReadBack(self)

NextMissing == UpdateCaller("a") \/ Other("b")

SpecMissing == Init /\ [][NextMissing]_vars

(* ---------------------------- category lists -------------------------- *)
\* Aggregates whose category list is empty, names stored categories once
\* or twice, or names the missing category 3.
CategoryProducts ==
    {Product(n, 1, cs, ms, <<>>) :
        n \in Names, ms \in {<<>>, <<1>>},
        cs \in {<<>>, <<1>>, <<3>>, <<1, 1>>, <<1, 2>>, <<2, 1>>, <<1, 3>>}}

\* A create, and a find_by_id by another caller.
CategoryWriter(self) ==
    \/ \E id \in ProdIds, P \in CategoryProducts : CreateBegin(self, id, P)
    \/ CreateCheck(self)
    \/ CreateInsertProduct(self)
    \/ CreateInsertCategories(self)
    \/ CreateInsertMaterials(self)
    \/ CreateInsertImages(self)
    \/ Commit(self)
    \/ ReadBack(self)

NextCategories ==
    \/ CategoryWriter("a")
    \/ \E id \in ProdIds : FindByIdCall("b", id)

SpecCategories == Init /\ [][NextCategories]_vars

(* ------------------------------- orphans ------------------------------ *)
\* A create or an update of a stored or missing product, naming stored and
\* missing categories.
OrphanWriter(self) ==
    \/ \E id \in ProdIds, P \in LiveProducts : CreateBegin(self, id, P)
    \/ \E id \in ProdIds, P \in LiveProducts : UpdateBegin(self, id, P)
    \/ LiveSteps(self)

\* A delete of a product or of a category by another caller.
Deleter(self) ==
    \/ \E id \in ProdIds : Delete(self, id)
    \/ \E c \in AllCatIds, mode \in OnDeleteCategory :
          DeleteCategory(self, c, mode)

NextOrphans == OrphanWriter("a") \/ Deleter("b")

SpecOrphans == Init /\ [][NextOrphans]_vars

(* -------------------------------- pages ------------------------------- *)
\* The queries of a caller that reads a listing page by page.
PageQueries ==
    [page : {None},
     limit : {None} \cup {Some(k) : k \in 1..MaxLimit},
     search : {None, Some(<<"a">>)},
     sort : {None} \cup {Some(f) : f \in AllowedSortFields},
     sort_order : {None, Some("Asc")}]

PagesBegin(self, q) ==
    /\ pc[self] = "idle"
    /\ call' = [call EXCEPT ![self] =
                  [op |-> "pages", id |-> "p1", product |-> NoProduct,
                   query |-> q, fetched |-> <<>>]]
    /\ gh' = [gh EXCEPT ![self] = Ghost(self)]
    /\ pc' = [pc EXCEPT ![self] = "paging"]
    /\ UNCHANGED <<db, tx, result>>

\* get_all for the next page: the rows that tie on the sort field come in
\* the order this execution of the statement gives them. The caller stops
\* at page total_page.
FetchPage(self, tie) ==
    /\ pc[self] = "paging"
    /\ \E k \in {Len(call[self].fetched) + 1} :
       \E r \in {GetAll(Visible(db, [o \in Procs |-> call[o].id], tx),
                        [call[self].query EXCEPT !.page = Some(Small(k))],
                        tie, "checked")} :
           /\ result' = [result EXCEPT ![self] = r]
           /\ IF r.kind = "Ok"
              THEN /\ call' = [call EXCEPT ![self].fetched =
                                 Append(@, [i \in 1..Len(r.data) |-> r.data[i].id])]
                   /\ pc' = [pc EXCEPT ![self] =
                               IF k >= r.total_page THEN "done" ELSE "paging"]
              ELSE /\ pc' = [pc EXCEPT ![self] = "done"]
                   /\ UNCHANGED call
           /\ UNCHANGED <<db, tx, gh>>

NextPages ==
    \/ /\ pc["a"] = "idle"
       /\ \E q \in PageQueries : PagesBegin("a", q)
    \/ \E tie \in TieOrders : FetchPage("a", tie)

SpecPages == InitList /\ [][NextPages]_vars

(* ------------------------------- service ------------------------------ *)
ServiceDbs == {d \in InitDbs : FreshIds(d) # {}}

InitService ==
    /\ db \in ServiceDbs
    /\ pc = [p \in Procs |-> "idle"]
    /\ call = [p \in Procs |-> NoCall]
    /\ tx = [p \in Procs |-> NoTx]
    /\ result = [p \in Procs |-> NoResult]
    /\ gh = [p \in Procs |-> NoGhost]

\* One create of the service, with the objects the bucket holds; the
\* request has no more images than ImgIds has ids left for them.
ServiceCreate(self) ==
    \/ /\ pc[self] = "idle"
       /\ \E req \in Requests, objects \in SUBSET Urls :
             /\ Len(req.image_urls) <= Cardinality(FreshImgIds(db))
             /\ ServiceCreateBegin(self, req, objects)
    \/ ServiceValidate(self)
    \/ ServiceInvokeCreate(self)
    \/ CreateCheck(self)
    \/ CreateInsertProduct(self)
    \/ CreateInsertCategories(self)
    \/ CreateInsertMaterials(self)
    \/ CreateInsertImages(self)
    \/ Commit(self)
    \/ ReadBack(self)

NextService == ServiceCreate("a")

SpecService == InitService /\ [][NextService]_vars

TypeOK ==
    /\ \A p \in Procs : pc[p] \in {"idle", "c_check", "c_product", "c_cats",
                                   "c_mats", "c_imgs", "u_product", "u_cats",
                                   "u_mats", "u_imgs", "commit", "read", "done",
                                   "s_validate", "su_validate", "su_find",
                                   "paging"}
    /\ db.pcr \subseteq ProdIds \X AllCatIds

(* ======================= properties of the calls ====================== *)
Done(self, o) == pc[self] = "done" /\ call[self].op = o

IdOf(self) == call[self].id
ProductOf(self) == call[self].product
Pre(self) == gh[self].pre

MissingCategory(d, P) == \E c \in Range(P.category_ids) : c \notin d.cats

\* Every row of d about product id is a row of d0: nothing was added.
NothingAdded(d0, d, id) ==
    /\ d.products[id].present => d.products[id] = d0.products[id]
    /\ CatsOf(d, id) \subseteq CatsOf(d0, id)
    /\ MatsOf(d, id) \subseteq MatsOf(d0, id)
    /\ ImgsOf(d, id) \subseteq ImgsOf(d0, id)

\* The rows of product id are the same in d0 and d.
SameProduct(d0, d, id) ==
    /\ d.products[id] = d0.products[id]
    /\ CatsOf(d, id) = CatsOf(d0, id)
    /\ MatsOf(d, id) = MatsOf(d0, id)
    /\ ImgsOf(d, id) = ImgsOf(d0, id)

\* C1: a create whose category_ids name a category that does not exist
\* returns NotFound, its transaction does not commit, and no product row,
\* relation row or image row of the product is added to the committed state.
C1_CreateMissingCategoryNotFound ==
    \A self \in Procs :
       (Done(self, "create") /\ MissingCategory(Pre(self), ProductOf(self)))
       => /\ result[self].kind = "NotFound"
          /\ ~gh[self].committed
          /\ NothingAdded(Pre(self), db, IdOf(self))
          /\ \A x \in ProdIds : ~Pre(self).products[x].present
                                   => ~db.products[x].present

C1_Witness ==
    \E self \in Procs :
       /\ Done(self, "create")
       /\ MissingCategory(Pre(self), ProductOf(self))
       /\ ~Pre(self).products[IdOf(self)].present
       /\ result[self].kind = "NotFound"

\* C2: a create with an empty category_ids returns Validation, the step that
\* rejects it finds no write in its transaction and leaves the committed
\* state as it is, and the call never commits.
C2_EmptyCategoriesState ==
    \A self \in Procs :
       (Done(self, "create") /\ Len(ProductOf(self).category_ids) = 0)
       => /\ result[self].kind = "Validation"
          /\ ~gh[self].committed
          /\ gh[self].alone => db = Pre(self)

C2_EmptyCategoriesStep ==
    \A self \in Procs :
       (/\ call[self].op = "create"
        /\ Len(ProductOf(self).category_ids) = 0
        /\ pc[self] # "done" /\ pc'[self] = "done")
       => /\ pc[self] = "c_check"
          /\ tx[self] = [NoTx EXCEPT !.open = TRUE]
          /\ db' = db

C2_CreateEmptyCategoriesValidation ==
    [](C2_EmptyCategoriesState) /\ [][C2_EmptyCategoriesStep]_vars

C2_Witness ==
    \E self \in Procs :
       /\ Done(self, "create")
       /\ Len(ProductOf(self).category_ids) = 0
       /\ result[self].kind = "Validation"

\* The aggregate a read of product id returns once the call of self has
\* committed P in full.
Desired(self) ==
    LET P == ProductOf(self)
        id == IdOf(self) IN
    Ok([id |-> id,
        name |-> P.name,
        created_at |-> IF call[self].op = "create" THEN P.created_at
                       ELSE Pre(self).products[id].created_at,
        category_ids |-> Range(P.category_ids),
        material_ids |-> Range(P.material_ids),
        categories |-> SortSet(Range(P.category_ids)),
        product_materials |-> SortSet(Range(P.material_ids)),
        images |-> SortSet(Range(P.images))])

\* An aggregate the storage accepts for product id: its categories and
\* materials exist, no id is repeated, and its image ids are not in use by
\* another product.
Acceptable(d, id, P) ==
    /\ ~MissingCategory(d, P)
    /\ \A m \in Range(P.material_ids) : m \in d.mats
    /\ ~HasDuplicates(P.category_ids)
    /\ ~HasDuplicates(P.material_ids)
    /\ ~HasDuplicates(P.images)
    /\ \A i \in Range(P.images) : d.images[i] \in {"none", id}

\* C3: after update(id, P) on an existing product, find_by_id(id) returns
\* the category_ids, material_ids and images of P, whatever the product had
\* before, also when P.images is not empty.
C3_UpdateReplaceAll ==
    \A self \in Procs :
       (/\ Done(self, "update")
        /\ Pre(self).products[IdOf(self)].present
        /\ Len(ProductOf(self).category_ids) >= 1
        /\ Acceptable(Pre(self), IdOf(self), ProductOf(self))
        /\ gh[self].alone)
       => LET r == FindById(db, IdOf(self)) IN
          /\ r.kind = "Ok"
          /\ r.value.category_ids = Range(ProductOf(self).category_ids)
          /\ r.value.material_ids = Range(ProductOf(self).material_ids)
          /\ Range(r.value.images) = Range(ProductOf(self).images)

\* The same without images: what update does replace.
UpdateReplaceAllWithoutImages ==
    \A self \in Procs :
       (/\ Done(self, "update")
        /\ Pre(self).products[IdOf(self)].present
        /\ Acceptable(Pre(self), IdOf(self), ProductOf(self))
        /\ Len(ProductOf(self).images) = 0
        /\ gh[self].alone)
       => /\ result[self] = Desired(self)
          /\ FindById(db, IdOf(self)) = Desired(self)

\* C4: create(P) of a new product whose categories (at least one) and
\* materials exist succeeds, returns P's scalars, category_ids, material_ids
\* and images, and find_by_id of the id returns the same aggregate as long
\* as no other call writes.
C4_CreateRoundTrip ==
    \A self \in Procs :
       (/\ Done(self, "create")
        /\ ~Pre(self).products[IdOf(self)].present
        /\ Len(ProductOf(self).category_ids) >= 1
        /\ Acceptable(Pre(self), IdOf(self), ProductOf(self))
        /\ \A i \in Range(ProductOf(self).images) : Pre(self).images[i] = "none"
        /\ gh[self].alone)
       => /\ result[self].kind = "Ok"
          /\ result[self] = Desired(self)
          /\ FindById(db, IdOf(self)) = result[self]

C4_Witness ==
    \E self \in Procs :
       /\ Done(self, "create")
       /\ gh[self].alone
       /\ result[self].kind = "Ok"
       /\ Len(ProductOf(self).images) >= 1
       /\ Len(ProductOf(self).material_ids) >= 1
       /\ FindById(db, IdOf(self)) = result[self]

\* C5: a create or update that returns an error has not committed, and the
\* committed state is what it was when the call began.
C5_ErrorMeansNoCommit ==
    \A self \in Procs :
       ((Done(self, "create") \/ Done(self, "update")) /\ result[self].kind # "Ok")
       => /\ ~gh[self].committed
          /\ gh[self].alone => db = Pre(self)

C7_UpdateMissingCategoryNotFound ==
    \A self \in Procs :
       (/\ Done(self, "update")
        /\ Pre(self).products[IdOf(self)].present
        /\ MissingCategory(Pre(self), ProductOf(self))
        /\ Len(ProductOf(self).images) = 0)
       => /\ result[self].kind = "NotFound"
          /\ gh[self].alone => SameProduct(Pre(self), db, IdOf(self))

\* C8: every product in the committed state has at least one category.
C8_EveryProductHasACategory ==
    \A x \in ProdIds : db.products[x].present => CatsOf(db, x) # {}

C10_NotFoundIffNoRow ==
    /\ \A x \in ProdIds :
          FindById(db, x).kind = "NotFound" <=> ~db.products[x].present
    /\ \A self \in Procs :
          Done(self, "find_by_id")
          => /\ result[self].kind \in {"Ok", "NotFound"}
             /\ result[self].kind = "NotFound"
                  <=> ~Pre(self).products[IdOf(self)].present

C10_RowOnlyByCreate ==
    \A x \in ProdIds :
       (~db.products[x].present /\ db'.products[x].present)
       => \E w \in Procs :
             /\ call[w].op = "create" /\ IdOf(w) = x
             /\ pc[w] = "commit" /\ pc'[w] = "read"

C10_FindByIdNotFound ==
    [](C10_NotFoundIffNoRow) /\ [][C10_RowOnlyByCreate]_vars

C10_Witness ==
    \E r \in Procs, d \in Procs :
       /\ Done(d, "delete") /\ Pre(d).products[IdOf(d)].present
       /\ Done(r, "find_by_id") /\ IdOf(r) = IdOf(d)
       /\ ~Pre(r).products[IdOf(r)].present
       /\ result[r].kind = "NotFound"

(* ===================== properties of the listings ===================== *)
QueryOf(self) == call[self].query

\* The ids of the items of a listing, in their order.
ItemIds(items) == [i \in 1..Len(items) |-> items[i].id]

\* C11: the total find_all returns is the number of products that pass the
\* filter (all products without search), whatever page is requested: the
\* first, the last partial one, or one beyond the last.
C11_TotalIndependentOfPage ==
    \A self \in Procs :
       (/\ Done(self, "find_all")
        /\ get_page(QueryOf(self)).hi = 0
        /\ result[self].kind = "Ok")
       => result[self].total = Cardinality(Groups(db, QueryOf(self).search))

\* The total of the pages that have a row.
TotalOfNonEmptyPage ==
    \A self \in Procs :
       (/\ Done(self, "find_all")
        /\ result[self].kind = "Ok"
        /\ Len(result[self].items) > 0)
       => result[self].total = Cardinality(Groups(db, QueryOf(self).search))

\* The number of items of page p with limit l of n rows.
PageSize(n, p, l) ==
    IF p.hi > 0 \/ (p.lo - 1) * l >= n THEN 0
    ELSE Min(l, n - (p.lo - 1) * l)

\* C12: with N products passing the filter and limit L, find_all for page
\* p >= 1 returns min(L, max(0, N - (p-1)*L)) items, the rows at offset
\* (p-1)*L of the sorted filtered set.
C12_PageHoldsRowsAtOffset ==
    \A self \in Procs :
       Done(self, "find_all")
       => LET q == QueryOf(self)
              n == Cardinality(Groups(db, q.search))
              sorted == OrderBy(db, Statement(q, Small(0)), call[self].tie,
                                Groups(db, q.search))
              size == PageSize(n, get_page(q), get_limit(q))
              first == (get_page(q).lo - 1) * get_limit(q)
          IN /\ result[self].kind = "Ok"
             /\ Len(result[self].items) = size
             /\ \A i \in 1..size : result[self].items[i].id = sorted[first + i]

\* The same for the pages whose offset fits 32 bits.
PageHoldsRowsAtOffsetWithoutOverflow ==
    \A self \in Procs :
       (Done(self, "find_all") /\ get_page(QueryOf(self)).hi = 0)
       => LET q == QueryOf(self)
              n == Cardinality(Groups(db, q.search))
              sorted == OrderBy(db, Statement(q, Small(0)), call[self].tie,
                                Groups(db, q.search))
              size == PageSize(n, get_page(q), get_limit(q))
              first == (get_page(q).lo - 1) * get_limit(q)
          IN /\ result[self].kind = "Ok"
             /\ Len(result[self].items) = size
             /\ \A i \in 1..size : result[self].items[i].id = sorted[first + i]

\* C13: the response of get_all has total_page = ceil(total_data / limit),
\* 0 for a total of 0, and its page and limit are the requested values, 1
\* and 10 when the request leaves them out.
C13_TotalPageAndEcho ==
    \A self \in Procs :
       (Done(self, "get_all") /\ result[self].kind = "Ok")
       => LET q == QueryOf(self)
              r == result[self]
          IN /\ r.total_page * r.limit >= r.total_data
             /\ r.total_page > 0 => (r.total_page - 1) * r.limit < r.total_data
             /\ r.total_data = 0 => r.total_page = 0
             /\ r.page = IF q.page = None THEN Small(1) ELSE q.page[1]
             /\ r.limit = IF q.limit = None THEN 10 ELSE q.limit[1]
             /\ r.data = FindAll(db, q, call[self].tie, call[self].build).items

C13_Witness ==
    \E self \in Procs :
       /\ Done(self, "get_all") /\ result[self].kind = "Ok"
       /\ QueryOf(self).page = Some(Small(3))
       /\ QueryOf(self).limit = Some(2)
       /\ result[self].total_data = 5
       /\ result[self].total_page = 3
       /\ Len(result[self].data) = 1

\* C14: a sort value outside the whitelist gives no error and the result of
\* the same query without sort, ordered by created_at; the value is not the
\* sort column of the statement.
C14_SortWhitelist ==
    \A self \in Procs :
       (/\ Done(self, "find_all")
        /\ QueryOf(self).sort # None
        /\ QueryOf(self).sort[1] \notin AllowedSortFields)
       => LET q == QueryOf(self)
              plain == [q EXCEPT !.sort = None]
              byCreated == [q EXCEPT !.sort = Some("created_at")]
          IN /\ result[self].kind # "Database"
             /\ result[self] = FindAll(db, plain, call[self].tie, call[self].build)
             /\ result[self] = FindAll(db, byCreated, call[self].tie, call[self].build)

C14_Witness ==
    \E self \in Procs :
       /\ Done(self, "find_all")
       /\ QueryOf(self).sort = Some("'; DROP TABLE products;--")
       /\ QueryOf(self).sort_order = Some("Asc")
       /\ result[self].kind = "Ok"
       /\ ItemIds(result[self].items) = <<"p1", "p2", "p3">>

(* ======================= properties of the reads ====================== *)
\* The collections of aggregate agg are the rows linked to product x in d,
\* each once, and its id lists are their ids.
Linked(d, x, agg) ==
    /\ agg.categories = SortSet({c \in CatsOf(d, x) : c \in d.cats})
    /\ agg.product_materials = SortSet({m \in MatsOf(d, x) : m \in d.mats})
    /\ agg.images = SortSet(ImgsOf(d, x))
    /\ agg.category_ids = Range(agg.categories)
    /\ agg.material_ids = Range(agg.product_materials)

\* C15: on every read path (find_by_id, find_all, the value create and
\* update return) the categories, product_materials and images of a product
\* are the rows linked to it, each once, and category_ids and material_ids
\* are their ids; create and update return what a read of the committed
\* state gives.
C15_ReadsAreRelationRows ==
    /\ \A x \in ProdIds :
          db.products[x].present => Linked(db, x, FindById(db, x).value)
    /\ \A tie \in TieOrders :
          LET l == FindAll(db, DefaultQuery, tie, "wrapping")
          IN \A i \in 1..Len(l.items) : Linked(db, l.items[i].id, l.items[i])
    /\ \A self \in Procs :
          /\ (Done(self, "find_by_id") /\ result[self].kind = "Ok")
             => Linked(Pre(self), IdOf(self), result[self].value)
          /\ (Done(self, "find_all") /\ result[self].kind = "Ok")
             => \A i \in 1..Len(result[self].items) :
                   Linked(Pre(self), result[self].items[i].id,
                          result[self].items[i])
          /\ ((Done(self, "create") \/ Done(self, "update"))
              /\ gh[self].committed /\ gh[self].alone)
             => /\ result[self] = FindById(db, IdOf(self))
                /\ result[self].kind = "Ok"
                     => Linked(db, IdOf(self), result[self].value)

C15_Witness ==
    \E r \in Procs, w \in Procs :
       /\ Done(r, "find_all") /\ result[r].kind = "Ok"
       /\ Len(result[r].items) = 2
       /\ \E i \in 1..2 :
             /\ Len(result[r].items[i].categories) = 2
             /\ Len(result[r].items[i].product_materials) = 0
             /\ Len(result[r].items[i].images) = 2
       /\ Done(w, "create") /\ result[w].kind = "Ok"
       /\ gh[w].committed /\ gh[w].alone
       /\ Len(result[w].value.categories) = 1

(* ==================== properties of two writers ======================= *)
\* Both calls are op calls on the same product and have returned.
BothDone(w1, w2, o) ==
    /\ w1 # w2
    /\ Done(w1, o) /\ Done(w2, o)
    /\ IdOf(w1) = IdOf(w2)

\* C16: when two concurrent updates of the same existing product both
\* commit, the committed product is the complete desired state of the one
\* that committed last: scalars, category links, material links and images.
C16_LastCommitWinsWhole ==
    \A w1 \in Procs, w2 \in Procs :
       (/\ BothDone(w1, w2, "update")
        /\ Pre(w1).products[IdOf(w1)].present
        /\ Pre(w2).products[IdOf(w2)].present
        /\ gh[w1].committed /\ gh[w2].committed
        /\ gh[w1].seq < gh[w2].seq)
       => /\ FindById(db, IdOf(w2)) = Desired(w2)
          /\ db.products[IdOf(w2)].name = ProductOf(w2).name
          /\ CatsOf(db, IdOf(w2)) = Range(ProductOf(w2).category_ids)
          /\ MatsOf(db, IdOf(w2)) = Range(ProductOf(w2).material_ids)
          /\ ImgsOf(db, IdOf(w2)) = Range(ProductOf(w2).images)

C16_Witness ==
    \E w1 \in Procs, w2 \in Procs :
       /\ BothDone(w1, w2, "update")
       /\ gh[w1].committed /\ gh[w2].committed
       /\ gh[w1].seq < gh[w2].seq
       /\ w1 \notin gh[w2].after
       /\ ProductOf(w1).name # ProductOf(w2).name
       /\ ProductOf(w1).category_ids # ProductOf(w2).category_ids
       /\ ProductOf(w1).material_ids # ProductOf(w2).material_ids
       /\ ImgsOf(Pre(w1), IdOf(w1)) # {}
       /\ FindById(db, IdOf(w2)) = Desired(w2)

\* C17: update(id, P) applied a second time after it returned leaves the
\* committed state the first one left and returns what the first returned.
C17_UpdateIdempotent ==
    \A w1 \in Procs, w2 \in Procs :
       (/\ BothDone(w1, w2, "update")
        /\ w1 \in gh[w2].after
        /\ ProductOf(w1) = ProductOf(w2)
        /\ Pre(w1).products[IdOf(w1)].present)
       => /\ result[w2] = result[w1]
          /\ db = Pre(w2)
          /\ gh[w1].committed <=> gh[w2].committed

C17_Witness ==
    \E w1 \in Procs, w2 \in Procs :
       /\ BothDone(w1, w2, "update")
       /\ w1 \in gh[w2].after
       /\ ProductOf(w1) = ProductOf(w2)
       /\ gh[w1].committed /\ gh[w2].committed
       /\ Pre(w1) # Pre(w2)
       /\ result[w2].kind = "Ok" /\ result[w2] = result[w1]

\* C18: a create(P) repeated with the same id after a create(P) committed
\* does not commit, and the product row, category links, material links and
\* image rows stay those the first create stored.
C18_CreateRetrySafe ==
    \A w1 \in Procs, w2 \in Procs :
       (/\ BothDone(w1, w2, "create")
        /\ w1 \in gh[w2].after
        /\ ProductOf(w1) = ProductOf(w2)
        /\ gh[w1].committed)
       => /\ ~gh[w2].committed
          /\ result[w2].kind # "Ok"
          /\ db = Pre(w2)
          /\ SameProduct(Pre(w2), db, IdOf(w2))

C18_Witness ==
    \E w1 \in Procs, w2 \in Procs :
       /\ BothDone(w1, w2, "create")
       /\ w1 \in gh[w2].after
       /\ ProductOf(w1) = ProductOf(w2)
       /\ gh[w1].committed
       /\ result[w1].kind = "Ok"
       /\ Len(ProductOf(w1).images) = 1
       /\ result[w2].kind = "Database"
       /\ FindById(db, IdOf(w2)) = result[w1]

(* ==================== properties of the service ======================= *)
\* Some image URL of the request of self is not an object of the bucket.
SomeUrlInvalid(self) ==
    \E i \in 1..Len(call[self].request.image_urls) :
       ~validate_object(call[self].objects, call[self].request.image_urls[i])

\* C19: the create of the service validates every image URL before it calls
\* the repository; when the validation of a URL fails the call returns the
\* error, repository.create is not invoked and nothing is persisted.
C19_ValidateBeforeCreate ==
    \A self \in Procs :
       call[self].op = "service_create"
       => /\ call[self].invoked
               => /\ call[self].validated = Len(call[self].request.image_urls)
                  /\ ~SomeUrlInvalid(self)
          /\ ~call[self].invoked
               => /\ ~tx[self].open
                  /\ ~gh[self].committed
                  /\ db = Pre(self)
          /\ (pc[self] = "done" /\ SomeUrlInvalid(self))
               => /\ result[self].kind = "Validation"
                  /\ ~call[self].invoked
                  /\ db = Pre(self)

C19_Witness ==
    \E self \in Procs :
       /\ Done(self, "service_create")
       /\ SomeUrlInvalid(self)
       /\ Len(call[self].request.category_ids) = 1
       /\ ~MissingCategory(db, call[self].request)
       /\ result[self].kind = "Validation"
       /\ ~call[self].invoked

(* ================ properties of the transaction protocol ============== *)
\* The steps of create and of update in the order of the code, from the
\* begin to the commit.
Protocol ==
    {<<"idle", "c_check">>, <<"c_check", "c_product">>,
     <<"c_product", "c_cats">>, <<"c_cats", "c_mats">>,
     <<"c_mats", "c_imgs">>, <<"c_imgs", "commit">>,
     <<"idle", "u_product">>, <<"u_product", "u_cats">>,
     <<"u_cats", "u_mats">>, <<"u_mats", "u_imgs">>, <<"u_imgs", "commit">>}

Validating == {"c_check"}

\* The step commits the transaction of self: its rows become the
\* committed rows.
Commits(self) ==
    /\ pc[self] = "commit" /\ pc'[self] = "read"
    /\ ~gh[self].committed /\ gh'[self].committed
    /\ db' = Apply(db, call[self].id, tx[self])

\* The step rolls the transaction of self back: the call returns an error
\* and the committed rows stay.
RollsBack(self) ==
    /\ pc'[self] = "done"
    /\ result'[self].kind \notin {"Ok", "none"}
    /\ ~gh'[self].committed
    /\ db' = db

ProtocolStep(self) ==
    /\ (~tx[self].open /\ tx'[self].open)
          => pc[self] = "idle" /\ result[self] = NoResult
    /\ (tx'[self].open /\ pc'[self] # pc[self])
          => /\ <<pc[self], pc'[self]>> \in Protocol
             /\ result'[self] = NoResult
    /\ (tx[self].open /\ tx'[self].open /\ tx'[self] # tx[self])
          => pc[self] \notin Validating
    /\ (tx[self].open /\ ~tx'[self].open)
          => /\ Commits(self) \/ RollsBack(self)
             /\ ~(Commits(self) /\ RollsBack(self))
    /\ gh'[self].committed # gh[self].committed => Commits(self)

ProtocolState(self) ==
    /\ tx[self].open <=> pc[self] \in InTx
    /\ gh[self].committed => pc[self] \in {"read", "done"}
    /\ pc[self] = "done" => ~tx[self].open

Abandoned(self) == pc[self] = "done" /\ result[self].kind = "Abandoned"

\* C21: a create or update that its caller abandons at an await before the
\* commit is rolled back: its transaction is closed, it has not committed,
\* and while no other call commits the committed state is the state of
\* before the call; no row it wrote is durable.
C21_AbandonRollsBack ==
    \A self \in Procs :
       Abandoned(self)
       => /\ ~tx[self].open
          /\ ~gh[self].committed
          /\ gh[self].alone => db = Pre(self)
          /\ (\A o \in Procs \ {self} : ~gh[o].committed) => db = Pre(self)

\* A create of p1 was abandoned, and the create of p1 that came after it
\* found no row of it.
C21_Witness ==
    \E w1, w2 \in Procs :
       /\ Abandoned(w1) /\ call[w1].op = "create"
       /\ call[w1].product.category_ids = <<1>>
       /\ Done(w2, "create") /\ result[w2].kind = "Ok"
       /\ w1 \in gh[w2].after

(* =================== properties of partial updates ==================== *)
RequestFields == {"name", "category_ids", "material_ids", "image_urls"}

\* The fields a request sets.
FieldsOf(req) == {f \in RequestFields : req[f] # None}

\* The committed product id has the value of every field that req sets.
Carries(d, id, req) ==
    /\ d.products[id].present
    /\ req.name # None => d.products[id].name = req.name[1]
    /\ req.category_ids # None => CatsOf(d, id) = Range(req.category_ids[1])
    /\ req.material_ids # None => MatsOf(d, id) = Range(req.material_ids[1])
    /\ req.image_urls # None
         => Cardinality(ImgsOf(d, id)) = Len(req.image_urls[1])

\* Both partial updates have returned a Product, they set disjoint fields.
BothUpdated(w1, w2) ==
    /\ w1 # w2
    /\ Done(w1, "service_update") /\ Done(w2, "service_update")
    /\ result[w1].kind = "Ok" /\ result[w2].kind = "Ok"
    /\ FieldsOf(call[w1].request) # {} /\ FieldsOf(call[w2].request) # {}
    /\ FieldsOf(call[w1].request) \cap FieldsOf(call[w2].request) = {}

\* C22: two partial updates of one product that set disjoint fields and
\* both succeed leave a committed product that carries the new values of
\* both, also when they run concurrently.
C22_PartialUpdatesRaceFree ==
    \A w1, w2 \in Procs :
       BothUpdated(w1, w2)
       => /\ Carries(db, call[w1].id, call[w1].request)
          /\ Carries(db, call[w2].id, call[w2].request)

\* The same for two partial updates one of which began after the other had
\* returned.
PartialUpdatesInSequence ==
    \A w1, w2 \in Procs :
       (BothUpdated(w1, w2) /\ w1 \in gh[w2].after)
       => /\ Carries(db, call[w1].id, call[w1].request)
          /\ Carries(db, call[w2].id, call[w2].request)

PartialUpdatesInSequenceWitness ==
    \E w1, w2 \in Procs : BothUpdated(w1, w2) /\ w1 \in gh[w2].after

(* ======================= properties of the images ===================== *)
\* The create of product id has committed and nothing was committed since.
LastWriteOf(w, id) ==
    /\ call[w].op = "create" /\ call[w].id = id
    /\ gh[w].committed
    /\ db = Apply(Pre(w), id, [NoTx EXCEPT !.rowW = "insert",
                                  !.row = Row(call[w].product.name, 1),
                                  !.addC = Range(call[w].product.category_ids),
                                  !.addM = Range(call[w].product.material_ids),
                                  !.addI = Range(call[w].product.images)])

\* C23: find_by_id, also as the read-back of create, returns the images of
\* a product in the order in which the last create supplied them.
C23_ImagesInSuppliedOrder ==
    \A r, w \in Procs :
       (/\ pc[r] = "done" /\ result[r].kind = "Ok"
        /\ call[r].op \in {"create", "find_by_id"}
        /\ LastWriteOf(w, call[r].id))
       => result[r].value.images = call[w].product.images

\* The images returned are the images supplied, in the order of their ids.
ImagesAreSuppliedSet ==
    \A r, w \in Procs :
       (/\ pc[r] = "done" /\ result[r].kind = "Ok"
        /\ call[r].op \in {"create", "find_by_id"}
        /\ LastWriteOf(w, call[r].id))
       => result[r].value.images = SortSet(Range(call[w].product.images))

ImagesAreSuppliedSetWitness ==
    \E r, w \in Procs :
       /\ r # w
       /\ Done(r, "find_by_id") /\ result[r].kind = "Ok"
       /\ LastWriteOf(w, call[r].id)
       /\ call[w].product.images = <<2, 1>>

(* ================ properties of updates of a missing id =============== *)
\* The product of the call of self had no row when the call began; no other
\* caller of the specification creates one.
MissingAtBegin(self) == ~Pre(self).products[IdOf(self)].present

UrlsValid(self) ==
    LET urls == UnwrapOr(call[self].request.image_urls, <<>>) IN
    \A i \in 1..Len(urls) : validate_object(call[self].objects, urls[i])

\* The repository update of a missing id: no row of the id is written or
\* committed, and the call returns NotFound or Database.
RepositoryUpdateMissing(self) ==
    (call[self].op = "update" /\ MissingAtBegin(self))
    => /\ ~db.products[IdOf(self)].present
       /\ tx[self].rowW = "none"
       /\ pc[self] = "done" => result[self].kind \in {"NotFound", "Database"}

\* The scalar UPDATE of a missing id goes on to the category statements.
ScalarUpdatePasses(self) ==
    (/\ call[self].op = "update" /\ MissingAtBegin(self)
     /\ pc[self] = "u_product" /\ pc'[self] # "u_product")
    => pc'[self] = "u_cats" /\ result'[self] = NoResult

\* C24 as stated: the update of an id without a product row passes the
\* scalar UPDATE, creates no row and returns NotFound or Database; the
\* update of the service on such an id returns NotFound and does not call
\* the repository update.
C24_UpdateOfMissingId ==
    /\ [](\A self \in Procs :
            /\ RepositoryUpdateMissing(self)
            /\ (Done(self, "service_update") /\ MissingAtBegin(self))
                 => /\ result[self].kind = "NotFound"
                    /\ ~call[self].invoked
                    /\ ~db.products[IdOf(self)].present)
    /\ [][\A self \in Procs : ScalarUpdatePasses(self)]_vars

\* C24: as above, where the update of the service returns NotFound when
\* the image URLs of its request validate; when one does not it returns
\* Validation. In neither case is the repository update called.
C24_UpdateOfMissingIdValidated ==
    /\ [](\A self \in Procs :
            /\ RepositoryUpdateMissing(self)
            /\ (Done(self, "service_update") /\ MissingAtBegin(self))
                 => /\ result[self].kind =
                          IF UrlsValid(self) THEN "NotFound" ELSE "Validation"
                    /\ ~call[self].invoked
                    /\ ~gh[self].committed
                    /\ ~db.products[IdOf(self)].present)
    /\ [][\A self \in Procs : ScalarUpdatePasses(self)]_vars

\* An update of a missing product with no category, material or image has
\* committed nothing and returned NotFound from its read-back.
C24_Witness ==
    \E self \in Procs :
       /\ Done(self, "update") /\ MissingAtBegin(self)
       /\ gh[self].committed
       /\ result[self].kind = "NotFound"
       /\ ~db.products[IdOf(self)].present

(* =================== properties of the category check ================= *)
\* C25: create returns NotFound only if a category it names is missing:
\* with a non-empty list of stored categories, also one that names a
\* category twice, it does not return NotFound.
C25_NotFoundOnlyIfMissing ==
    \A self \in Procs :
       (/\ Done(self, "create")
        /\ Len(ProductOf(self).category_ids) # 0
        /\ ~MissingCategory(Pre(self), ProductOf(self)))
       => result[self].kind # "NotFound"

\* The same for lists that name no category twice.
NotFoundOnlyIfMissingOrRepeated ==
    \A self \in Procs :
       (/\ Done(self, "create")
        /\ Len(ProductOf(self).category_ids) # 0
        /\ ~HasDuplicates(ProductOf(self).category_ids)
        /\ ~MissingCategory(Pre(self), ProductOf(self)))
       => result[self].kind # "NotFound"

NotFoundOnlyIfMissingOrRepeatedWitness ==
    \E self \in Procs :
       /\ Done(self, "create")
       /\ ProductOf(self).category_ids = <<2, 1>>
       /\ result[self].kind = "Ok"

(* ======================= properties of the search ===================== *)
\* The text contains the term, letters compared without their case.
Contains(text, term) ==
    \E i \in 1..(Len(text) - Len(term) + 1) :
       \A j \in 1..Len(term) : Lower(text[i + j - 1]) = Lower(term[j])

\* The products whose name, description or material contains the term;
\* every product when there is no term.
Matching(d, search) ==
    {p \in DOMAIN d.products :
       /\ d.products[p].present
       /\ \/ search = None
          \/ Contains(d.products[p].name, search[1])
          \/ Contains(d.products[p].description, search[1])
          \/ Contains(d.products[p].material, search[1])}

\* The listing of self is of the products that match its search: its items
\* are among them, its total counts them when it has an item, and it is
\* empty with total 0 when none matches.
ListsTheMatching(self) ==
    LET found == Matching(db, QueryOf(self).search) IN
    /\ Range(ItemIds(result[self].items)) \subseteq found
    /\ Len(result[self].items) > 0 => result[self].total = Cardinality(found)
    /\ found = {} => result[self].items = <<>> /\ result[self].total = 0

\* C26: with a search find_all returns exactly the products whose name,
\* description or material contains the term without regard to case, and
\* without a search all products; a term that no product contains gives
\* no item and total 0, not an error.
C26_SearchIsContainment ==
    \A self \in Procs :
       Done(self, "find_all")
       => /\ result[self].kind = "Ok" => ListsTheMatching(self)
          /\ (/\ Matching(db, QueryOf(self).search) = {}
              /\ get_page(QueryOf(self)).hi = 0)
               => result[self].kind = "Ok"

\* The same for the terms that have none of the pattern characters of LIKE.
SearchIsContainmentOfPlainTerms ==
    \A self \in Procs :
       (/\ Done(self, "find_all")
        /\ QueryOf(self).search \notin {Some(<<"_">>)})
       => /\ result[self].kind = "Ok" => ListsTheMatching(self)
          /\ (/\ Matching(db, QueryOf(self).search) = {}
              /\ get_page(QueryOf(self)).hi = 0)
               => result[self].kind = "Ok"

SearchIsContainmentOfPlainTermsWitness ==
    \E self \in Procs :
       /\ Done(self, "find_all") /\ result[self].kind = "Ok"
       /\ QueryOf(self).search = Some(<<"a">>)
       /\ Range(ItemIds(result[self].items)) = {"p1", "p2", "p3"}

(* ====================== properties of the offset ====================== *)
\* (page - 1) * limit as a 64-bit value, in units of Half and below.
ExactOffset(q) ==
    LET p == Decrement(get_page(q))
        low == p.lo * get_limit(q)
    IN U32(p.hi * get_limit(q) + (low \div Half), low % Half)

Listed(self) == pc[self] = "done" /\ call[self].op \in {"find_all", "get_all"}

\* C27: for every page >= 1 and limit of a PaginationQuery get_offset
\* returns (page - 1) * limit: the multiplication in u32 neither wraps
\* around nor aborts.
C27_OffsetIsExact ==
    \A self \in Procs :
       Listed(self)
       => /\ ~get_offset(QueryOf(self), call[self].build).panic
          /\ get_offset(QueryOf(self), call[self].build).value
                = ExactOffset(QueryOf(self))
          /\ result[self].kind # "Panic"

\* The same for the pages below 2^16, whose offset fits 32 bits with every
\* limit up to 100.
OffsetIsExactForSmallPages ==
    \A self \in Procs :
       (Listed(self) /\ get_page(QueryOf(self)).hi = 0)
       => /\ ~get_offset(QueryOf(self), call[self].build).panic
          /\ get_offset(QueryOf(self), call[self].build).value
                = ExactOffset(QueryOf(self))
          /\ result[self].kind # "Panic"

OffsetIsExactForSmallPagesWitness ==
    \E self \in Procs :
       /\ Listed(self)
       /\ QueryOf(self).page = Some(Small(3)) /\ QueryOf(self).limit = Some(2)
       /\ get_offset(QueryOf(self), call[self].build).value = Small(4)

(* ======================== properties of the rows ====================== *)
\* Every relation row and image row of d is of a stored product, and every
\* category relation names a stored category.
NoOrphans(d) ==
    /\ \A l \in d.pcr : d.products[l[1]].present /\ l[2] \in d.cats
    /\ \A l \in d.pmr : d.products[l[1]].present
    /\ \A i \in ImgIds : d.images[i] # "none" => d.products[d.images[i]].present

NoOrphansAfterDeleteWitness ==
    /\ Done("b", "delete")
    /\ Pre("b").pcr # {} /\ db.pcr = {} /\ ImgsOf(Pre("b"), IdOf("b")) # {}
    /\ Done("a", "update") /\ ~Pre("a").products[IdOf("a")].present

(* ======================== properties of the frame ===================== *)
\* The committed rows of product p: its row, category relations, material
\* relations and images.
RowsOf(d, p) == <<d.products[p], CatsOf(d, p), MatsOf(d, p), ImgsOf(d, p)>>

\* The caller whose call takes the step.
Acts(self) == pc'[self] # pc[self]

FrameStep ==
    /\ db'.cats = db.cats /\ db'.mats = db.mats
    /\ \A p \in ProdIds :
          RowsOf(db', p) # RowsOf(db, p)
          => \E self \in Procs :
                /\ Acts(self)
                /\ call'[self].id = p
                /\ call'[self].op \in {"create", "update", "delete"}
    /\ \A self \in Procs :
          (Acts(self) /\ call'[self].op = "update")
          => /\ db'.products[call'[self].id].present
                   = db.products[call'[self].id].present
             /\ db'.products[call'[self].id].created_at
                   = db.products[call'[self].id].created_at
    /\ \A self \in Procs :
          (Acts(self) /\ call'[self].op \in {"find_by_id", "find_all"})
          => db' = db

\* C29: create, update and delete of product X leave the row, relations
\* and images of every other product and the categories and materials as
\* they are; update leaves the id and created_at of X; find_all and
\* find_by_id change nothing.
C29_Frame == [][FrameStep]_vars

\* An update of p2 has committed next to the stored product p1 and its
\* image, and a find_all has run.
C29_Witness ==
    /\ Done("a", "update") /\ gh["a"].committed /\ IdOf("a") = "p2"
    /\ RowsOf(db, "p2") # RowsOf(Pre("a"), "p2")
    /\ db.products["p1"].present /\ ImgsOf(db, "p1") # {}
    /\ RowsOf(db, "p1") = RowsOf(Pre("a"), "p1")
    /\ Done("b", "find_all")

(* ======================== properties of the pages ===================== *)
RECURSIVE Flatten(_)
Flatten(ss) == IF Len(ss) = 0 THEN <<>> ELSE Head(ss) \o Flatten(Tail(ss))

\* The pages fetched hold every product of S once.
EachOnce(pages, S) ==
    /\ Range(Flatten(pages)) = S
    /\ Len(Flatten(pages)) = Cardinality(S)

\* Two products that pass the search of q have the same value in its sort
\* field.
HasTies(d, q) ==
    \E x, y \in Groups(d, q.search) :
       x # y /\ SortKey(d, x, SortField(q)) = SortKey(d, y, SortField(q))

\* C30: with one query and no write in between, the pages 1..total_pages
\* hold every product that passes the search exactly once, also when
\* products tie on the sort field.
C30_PagesPartition ==
    \A self \in Procs :
       (Done(self, "pages") /\ result[self].kind = "Ok")
       => EachOnce(call[self].fetched, Groups(db, QueryOf(self).search))

\* The same for the queries under which no two products tie.
PagesPartitionWithoutTies ==
    \A self \in Procs :
       (/\ Done(self, "pages") /\ result[self].kind = "Ok"
        /\ ~HasTies(db, QueryOf(self)))
       => EachOnce(call[self].fetched, Groups(db, QueryOf(self).search))

PagesPartitionWithoutTiesWitness ==
    \E self \in Procs :
       /\ Done(self, "pages") /\ result[self].kind = "Ok"
       /\ ~HasTies(db, QueryOf(self))
       /\ Len(call[self].fetched) = 3
       /\ Cardinality(Groups(db, QueryOf(self).search)) = 5

====
